---- MODULE Spec2Model ----
\* A model of eolinuxify.py: the ignore-rule repairer, the ignore chain and the
\* directory walker of get_included_files, the CRLF scan / fix routines and main.
EXTENDS Integers, Sequences, FiniteSets, TLC

VARIABLES
    phase,      \* which routine the current behaviour exercises
    contents,   \* repair_gitignore_contents: the text handed to the first call
    repaired,   \* repair_gitignore_contents: the successive results, each fed to the next call
    data,       \* fix_file / has_any_crlf: the bytes of the file on disk
    data0,      \* the bytes of that file before the first call
    written,    \* the bytes fix_file wrote, one entry per call that reached its write
    raised,     \* TRUE once a fix_file call raised (UnicodeDecodeError)
    scan,       \* the result of the last has_any_crlf since the last write: "none", "crlf", "clean"
    files,      \* main: the bytes of every included file, by relative path
    files0,     \* main: the bytes of every included file when main started
    yes,        \* main: the --yes flag
    answer,     \* main: what click.confirm returned: "unasked", "y", "n"
    pc,         \* main: "scan", "confirm", "fix", "exit0", "aborted", "done"
    found_crlf, \* main: the list built by the scan loop
    idx,        \* main: position of the running loop in its list
    opened,     \* main: the files fix_file opened for writing
    reported,   \* main: the files whose exception the fix loop printed
    tree,       \* walker: the working tree, [dirs, files], paths relative to the root
    gitignore,  \* walker: per directory, whether it holds a .gitignore and its text
    wpc,        \* walker: "start", "walk", "done"
    cwd,        \* walker: the process's current directory
    stack,      \* walker: the active calls of recursion, innermost last
    result,     \* walker: the list get_included_files returns
    visited,    \* walker: the directories that were listed
    predAt      \* walker: the predicate is_ignored each listed directory built

repairVars == <<contents, repaired>>
fileVars == <<data, data0, written, raised, scan>>
mainVars == <<files, files0, yes, answer, pc, found_crlf, idx, opened, reported>>
walkVars == <<tree, gitignore, wpc, cwd, stack, result, visited, predAt>>
vars == <<phase, repairVars, fileVars, mainVars, walkVars>>

-----------------------------------------------------------------------------
\* Text. A text is a sequence of symbols: the characters the code looks at
\* ("/", "\", "*", "#", "!", blank, newline) and atomic runs of ordinary
\* characters (a name such as "a" or "node_modules").

SLASH  == "/"
BSLASH == "\\"
STAR   == "*"
HASH   == "#"
BANG   == "!"
SP     == " "
NL     == "\n"

\* Longest ignore-file text given to the repairer.
MaxLen == 6

RepairAlphabet == {"a", SLASH, BSLASH, STAR, HASH, SP, NL}

\* The sequences over S of length n at most.
SeqsUpTo(S, n) == UNION {[1..k -> S] : k \in 0..n}

EndsWith(line, suffix) ==
    /\ Len(line) >= Len(suffix)
    /\ SubSeq(line, Len(line) - Len(suffix) + 1, Len(line)) = suffix

StartsWith(line, prefix) ==
    /\ Len(line) >= Len(prefix)
    /\ SubSeq(line, 1, Len(prefix)) = prefix

DropLast(line, n) == SubSeq(line, 1, Len(line) - n)

\* str.splitlines(): a trailing newline opens no further line.
RECURSIVE SplitLinesFrom(_, _, _)
SplitLinesFrom(s, i, cur) ==
    IF i > Len(s) THEN (IF cur = <<>> THEN <<>> ELSE <<cur>>)
    ELSE IF s[i] = NL THEN <<cur>> \o SplitLinesFrom(s, i + 1, <<>>)
    ELSE SplitLinesFrom(s, i + 1, Append(cur, s[i]))

SplitLines(s) == SplitLinesFrom(s, 1, <<>>)

\* str.strip(): leading and trailing blanks go.
RECURSIVE LStrip(_)
LStrip(line) ==
    IF line # <<>> /\ line[1] = SP THEN LStrip(Tail(line)) ELSE line

RECURSIVE RStrip(_)
RStrip(line) ==
    IF line # <<>> /\ line[Len(line)] = SP THEN RStrip(DropLast(line, 1)) ELSE line

Strip(line) == RStrip(LStrip(line))

\* "\n".join(lines)
RECURSIVE Join(_)
Join(lines) ==
    IF lines = <<>> THEN <<>>
    ELSE IF Len(lines) = 1 THEN lines[1]
    ELSE lines[1] \o <<NL>> \o Join(Tail(lines))

MapSeq(Op(_), s) == [i \in 1..Len(s) |-> Op(s[i])]

\* Lines 32-35: the lines that survive trimming and the blank / comment filters.
KeptLines(text) ==
    LET stripped == MapSeq(Strip, SplitLines(text))
        nonEmpty == SelectSeq(stripped, LAMBDA l : l # <<>>)
    IN  SelectSeq(nonEmpty, LAMBDA l : ~StartsWith(l, <<HASH>>))

\* Lines 36-39: the first pass removes a three-character suffix.
StripDoubleStar(line) ==
    IF EndsWith(line, <<SLASH, STAR, STAR>>) \/ EndsWith(line, <<BSLASH, STAR, STAR>>)
    THEN DropLast(line, 3) ELSE line

\* Lines 40-43: the second pass removes a two-character suffix.
StripSingleStar(line) ==
    IF EndsWith(line, <<SLASH, STAR>>) \/ EndsWith(line, <<BSLASH, STAR>>)
    THEN DropLast(line, 2) ELSE line

\* A repairer whose second pass is skipped for a line the first pass changed.
RepairLineElseIf(line) ==
    IF StripDoubleStar(line) # line THEN StripDoubleStar(line) ELSE StripSingleStar(line)

\* Lines 36-43 for one line: the second pass runs on the result of the first.
RepairLine(line) == StripSingleStar(StripDoubleStar(line))

repair_gitignore_contents(text) == Join(MapSeq(RepairLine, KeptLines(text)))

-----------------------------------------------------------------------------
\* The repairer applied to a text, then to its own result.

IdleRepair == contents = <<>> /\ repaired = <<>>
IdleFile == data = <<>> /\ data0 = <<>> /\ written = <<>> /\ raised = FALSE /\ scan = "none"

IdleMain ==
    /\ files = <<>> /\ files0 = <<>> /\ yes = FALSE /\ answer = "unasked" /\ pc = "idle"
    /\ found_crlf = <<>> /\ idx = 0 /\ opened = {} /\ reported = {}

IdleWalk ==
    /\ tree = [dirs |-> {}, files |-> {}] /\ gitignore = <<>> /\ wpc = "idle"
    /\ cwd = <<>> /\ stack = <<>> /\ result = <<>> /\ visited = {} /\ predAt = <<>>

InitRepair ==
    /\ phase = "repair"
    /\ contents \in SeqsUpTo(RepairAlphabet, MaxLen)
    /\ repaired = <<>>
    /\ IdleFile
    /\ IdleMain
    /\ IdleWalk

\* repair_gitignore_contents(contents)
Repair ==
    /\ phase = "repair"
    /\ repaired = <<>>
    /\ repaired' = <<repair_gitignore_contents(contents)>>
    /\ UNCHANGED <<phase, contents, fileVars, mainVars, walkVars>>

\* repair_gitignore_contents applied to its own result.
RepairAgain ==
    /\ phase = "repair"
    /\ Len(repaired) = 1
    /\ repaired' = Append(repaired, repair_gitignore_contents(repaired[1]))
    /\ UNCHANGED <<phase, contents, fileVars, mainVars, walkVars>>

NextRepair == Repair \/ RepairAgain

SpecRepair == InitRepair /\ [][NextRepair]_vars

\* C6: repair(repair(x)) = repair(x) for every text x.
C6_RepairIdempotent == Len(repaired) >= 2 => repaired[2] = repaired[1]

Ends3(line) == EndsWith(line, <<SLASH, STAR, STAR>>) \/ EndsWith(line, <<BSLASH, STAR, STAR>>)
Ends2(line) == EndsWith(line, <<SLASH, STAR>>) \/ EndsWith(line, <<BSLASH, STAR>>)

\* The number of characters the claim lets a line lose: one suffix at most.
OneSuffix(line) == IF Ends3(line) THEN 3 ELSE IF Ends2(line) THEN 2 ELSE 0

\* The number of characters a line loses when the two-character suffix is also
\* looked for in what the three-character removal left.
BothSuffixes(line) ==
    LET first == IF Ends3(line) THEN 3 ELSE 0
    IN  first + (IF Ends2(DropLast(line, first)) THEN 2 ELSE 0)

\* C10 as stated: every kept line loses exactly one wildcard suffix at most,
\* three characters for "/**" or "\**", otherwise two for "/*" or "\*".
C10_AtMostOneSuffix ==
    Len(repaired) >= 1 =>
        repaired[1] = Join(MapSeq(LAMBDA l : DropLast(l, OneSuffix(l)), KeptLines(contents)))

\* C10 amended: a kept line loses its three-character suffix "/**" or "\**" if
\* it has one, and then the two-character suffix "/*" or "\*" of what is left
\* if there is one, so up to five characters; "a/*/**" is repaired to "a".
C10_UpToTwoSuffixes ==
    Len(repaired) >= 1 =>
        repaired[1] = Join(MapSeq(LAMBDA l : DropLast(l, BothSuffixes(l)), KeptLines(contents)))

C10_Witness ==
    /\ contents = <<"a", SLASH, STAR, SLASH, STAR, STAR>>
    /\ Len(repaired) >= 1
    /\ repaired[1] = <<"a">>

-----------------------------------------------------------------------------
\* Bytes and UTF-8. A file is a sequence of bytes.

CR == 13
LF == 10

\* Longest file content given to fix_file.
MaxBytes == 3

\* Number of fix_file calls on the same file that are observed.
MaxFix == 2

\* CR, LF, "a", and the two bytes of the UTF-8 encoding of U+00E9.
Bytes == {13, 10, 97, 195, 169}

\* bytes.decode("utf-8") for one- and two-byte sequences: <<ok, code points>>.
RECURSIVE Utf8Decode(_)
Utf8Decode(b) ==
    IF b = <<>> THEN <<TRUE, <<>>>>
    ELSE IF b[1] < 128
    THEN LET rest == Utf8Decode(Tail(b))
         IN  <<rest[1], <<b[1]>> \o rest[2]>>
    ELSE IF b[1] >= 194 /\ b[1] <= 223 /\ Len(b) >= 2 /\ b[2] >= 128 /\ b[2] <= 191
    THEN LET rest == Utf8Decode(Tail(Tail(b)))
         IN  <<rest[1], <<(b[1] - 192) * 64 + (b[2] - 128)>> \o rest[2]>>
    ELSE <<FALSE, <<>>>>

\* str.encode("utf-8") for code points below U+0800.
RECURSIVE Utf8Encode(_)
Utf8Encode(t) ==
    IF t = <<>> THEN <<>>
    ELSE IF t[1] < 128 THEN <<t[1]>> \o Utf8Encode(Tail(t))
    ELSE <<192 + (t[1] \div 64), 128 + (t[1] % 64)>> \o Utf8Encode(Tail(t))

\* str.replace("\r\n", "\n"): one pass, left to right, over the original text.
RECURSIVE ReplaceCRLF(_)
ReplaceCRLF(t) ==
    IF t = <<>> THEN <<>>
    ELSE IF Len(t) >= 2 /\ t[1] = CR /\ t[2] = LF THEN <<LF>> \o ReplaceCRLF(Tail(Tail(t)))
    ELSE <<t[1]>> \o ReplaceCRLF(Tail(t))

\* Line 109: b"\r\n" in contents
has_any_crlf(b) == \E i \in 1..(Len(b) - 1) : b[i] = CR /\ b[i + 1] = LF

\* Line 117, when decoding succeeds.
FixedBytes(b) == Utf8Encode(ReplaceCRLF(Utf8Decode(b)[2]))

IsUtf8(b) == Utf8Decode(b)[1]

InitFile ==
    /\ phase = "file"
    /\ data0 \in SeqsUpTo(Bytes, MaxBytes)
    /\ data = data0
    /\ written = <<>>
    /\ raised = FALSE
    /\ scan = "none"
    /\ IdleRepair
    /\ IdleMain
    /\ IdleWalk

\* fix_file, lines 114-119, on a file whose bytes decode.
FixFileOk ==
    /\ phase = "file"
    /\ Len(written) < MaxFix
    /\ IsUtf8(data)
    /\ data' = FixedBytes(data)
    /\ written' = Append(written, data')
    /\ scan' = "none"
    /\ UNCHANGED <<phase, data0, raised, repairVars, mainVars, walkVars>>

\* fix_file on a file whose bytes do not decode: line 117 raises before line 118.
FixFileRaises ==
    /\ phase = "file"
    /\ ~raised
    /\ ~IsUtf8(data)
    /\ raised' = TRUE
    /\ UNCHANGED <<phase, data, data0, written, scan, repairVars, mainVars, walkVars>>

\* has_any_crlf, lines 106-111.
ScanFile ==
    /\ phase = "file"
    /\ scan = "none"
    /\ scan' = IF has_any_crlf(data) THEN "crlf" ELSE "clean"
    /\ UNCHANGED <<phase, data, data0, written, raised, repairVars, mainVars, walkVars>>

NextFile == FixFileOk \/ FixFileRaises \/ ScanFile

SpecFile == InitFile /\ [][NextFile]_vars

\* C1: for a file that is valid UTF-8 and contains a CRLF, a scan after one
\* fix_file finds no CRLF, and a second fix_file writes the bytes the first wrote.
C1_FixIdempotentComplete ==
    (IsUtf8(data0) /\ has_any_crlf(data0)) =>
        /\ (Len(written) = 1 => scan # "crlf")
        /\ (Len(written) = 2 => written[2] = written[1])

-----------------------------------------------------------------------------
\* main, lines 165-189, on the list of included files that discovery and the
\* exclude filter produced.

included_files == <<"a.txt", "b.txt", "c.txt">>

\* File contents main is run on: LF only; CRLF; CR CR LF; a lone UTF-8 lead
\* byte before a CRLF; a lone continuation byte before a CRLF; a two-byte
\* character before a CRLF; a lone lead byte and no CRLF.
MainContents ==
    { <<97, LF>>, <<97, CR, LF>>, <<CR, CR, LF>>, <<195, CR, LF>>, <<169, CR, LF>>,
      <<195, 169, CR, LF>>, <<195>> }

Range(s) == {s[i] : i \in 1..Len(s)}

InitMain ==
    /\ phase = "main"
    /\ files0 \in [Range(included_files) -> MainContents]
    /\ files = files0
    /\ yes \in BOOLEAN
    /\ answer = "unasked"
    /\ pc = "scan"
    /\ found_crlf = <<>>
    /\ idx = 1
    /\ opened = {}
    /\ reported = {}
    /\ IdleRepair
    /\ IdleFile
    /\ IdleWalk

\* Lines 166-171: one iteration of the scan loop.
ScanNext ==
    /\ phase = "main" /\ pc = "scan"
    /\ idx <= Len(included_files)
    /\ found_crlf' = IF has_any_crlf(files[included_files[idx]])
                      THEN Append(found_crlf, included_files[idx])
                      ELSE found_crlf
    /\ idx' = idx + 1
    /\ UNCHANGED <<phase, files, files0, yes, answer, pc, opened, reported, repairVars, fileVars, walkVars>>

\* Lines 172-174: nothing to fix, exit(0).
NothingToFix ==
    /\ phase = "main" /\ pc = "scan"
    /\ idx > Len(included_files)
    /\ found_crlf = <<>>
    /\ pc' = "exit0"
    /\ UNCHANGED <<phase, files, files0, yes, answer, found_crlf, idx, opened, reported,
                   repairVars, fileVars, walkVars>>

\* Lines 176-178: the report of the files found.
Report ==
    /\ phase = "main" /\ pc = "scan"
    /\ idx > Len(included_files)
    /\ found_crlf # <<>>
    /\ pc' = "confirm"
    /\ UNCHANGED <<phase, files, files0, yes, answer, found_crlf, idx, opened, reported,
                   repairVars, fileVars, walkVars>>

\* A guard that lost the "not" before click.confirm.
ProceedsLostNot(y, a) == ~((~y) /\ (a = "y"))

\* Line 179: the fix loop is reached unless (not yes) and (not confirm(...)).
Proceeds(y, a) == ~((~y) /\ ~(a = "y"))

\* Lines 179-181: click.confirm is called only when --yes is not set.
Confirm ==
    /\ phase = "main" /\ pc = "confirm"
    /\ \E a \in (IF yes THEN {"unasked"} ELSE {"y", "n"}) :
        /\ answer' = a
        /\ pc' = IF Proceeds(yes, a) THEN "fix" ELSE "aborted"
    /\ idx' = 1
    /\ UNCHANGED <<phase, files, files0, yes, found_crlf, opened, reported, repairVars, fileVars, walkVars>>

\* A fix loop whose try statement encloses the loop: the first exception ends it.
NextFixIndexAbort(i, ok, n) == IF ok THEN i + 1 ELSE n + 1

\* Lines 182-188: the try statement is inside the loop, the next file follows.
NextFixIndex(i, ok, n) == i + 1

\* Lines 182-188: one iteration of the fix loop; fix_file raises at line 117,
\* before the file is opened for writing, when the bytes do not decode.
FixNext ==
    /\ phase = "main" /\ pc = "fix"
    /\ idx <= Len(found_crlf)
    /\ LET f == found_crlf[idx]
           ok == IsUtf8(files[f])
       IN  /\ files' = IF ok THEN [files EXCEPT ![f] = FixedBytes(files[f])] ELSE files
           /\ opened' = IF ok THEN opened \cup {f} ELSE opened
           /\ reported' = IF ok THEN reported ELSE reported \cup {f}
           /\ idx' = NextFixIndex(idx, ok, Len(found_crlf))
    /\ UNCHANGED <<phase, files0, yes, answer, pc, found_crlf, repairVars, fileVars, walkVars>>

\* Line 189: the loop is over.
Finish ==
    /\ phase = "main" /\ pc = "fix"
    /\ idx > Len(found_crlf)
    /\ pc' = "done"
    /\ UNCHANGED <<phase, files, files0, yes, answer, found_crlf, idx, opened, reported,
                   repairVars, fileVars, walkVars>>

NextMain == ScanNext \/ NothingToFix \/ Report \/ Confirm \/ FixNext \/ Finish

SpecMain == InitMain /\ [][NextMain]_vars

\* C8: no file is opened for writing or changed unless --yes is set or the
\* user confirmed, and a run ended by a declined confirmation has left every
\* file with the bytes it had at the start.
C8_NoWriteBeforeConfirm ==
    /\ (opened # {} \/ files # files0) => (yes \/ answer = "y")
    /\ pc = "aborted" => (files = files0 /\ opened = {})
    /\ (phase = "main" /\ ~yes /\ answer = "n") => pc = "aborted"

C8_Witness ==
    /\ pc = "aborted"
    /\ Len(found_crlf) = Len(included_files)
    /\ ~yes /\ answer = "n"

\* C9: when the fix loop is over, a listed file that is not valid UTF-8 has
\* its original bytes and was reported, and every other listed file was
\* written with its CRLFs replaced, wherever the failing files stand in the list.
C9_DecodeErrorIsolated ==
    pc = "done" =>
        \A i \in 1..Len(found_crlf) :
            LET f == found_crlf[i]
            IN  IF IsUtf8(files0[f])
                THEN /\ f \in opened /\ f \notin reported
                     /\ files[f] = Utf8Encode(ReplaceCRLF(Utf8Decode(files0[f])[2]))
                ELSE /\ f \notin opened /\ f \in reported
                     /\ files[f] = files0[f]

C9_Witness ==
    /\ pc = "done"
    /\ Len(found_crlf) = 3
    /\ ~IsUtf8(files0[found_crlf[1]])
    /\ \A i \in 2..3 : IsUtf8(files0[found_crlf[i]]) /\ files[found_crlf[i]] # files0[found_crlf[i]]
    /\ reported = {found_crlf[1]}

-----------------------------------------------------------------------------
\* Paths. A path is [abs, parts]: whether it is absolute, and its components.
\* The relative path "" has no component, "." has the one component ".".

AbsPath(parts) == [abs |-> TRUE, parts |-> parts]
RelPath(parts) == [abs |-> FALSE, parts |-> parts]

\* Line 61: root = os.getcwd()
root == AbsPath(<<"proj">>)

\* os.path.dirname(f.name): the directory of the temporary files.
TempDir == AbsPath(<<"tmp">>)

\* os.path.join(a, b): an absolute b discards a.
os_path_join(a, b) == IF b.abs THEN b ELSE [abs |-> a.abs, parts |-> a.parts \o b.parts]

RECURSIVE CommonPrefixLen(_, _)
CommonPrefixLen(a, b) ==
    IF a # <<>> /\ b # <<>> /\ a[1] = b[1] THEN 1 + CommonPrefixLen(Tail(a), Tail(b)) ELSE 0

\* os.path.relpath(path, start) for two absolute paths.
os_path_relpath(path, start) ==
    LET c == CommonPrefixLen(path.parts, start.parts)
        ups == [i \in 1..(Len(start.parts) - c) |-> ".."]
        rel == ups \o SubSeq(path.parts, c + 1, Len(path.parts))
    IN  RelPath(IF rel = <<>> THEN <<".">> ELSE rel)

os_path_basename(path) ==
    IF path.parts = <<>> THEN "" ELSE path.parts[Len(path.parts)]

\* The working tree's path of an absolute path under the root.
TreePath(path) == SubSeq(path.parts, Len(root.parts) + 1, Len(path.parts))

\* The absolute path of a working-tree path.
FullPath(p) == AbsPath(root.parts \o p)

Prefix(p, k) == SubSeq(p, 1, k)

os_path_isdir(path) == TreePath(path) \in tree.dirs

\* os.listdir(path): the names of the entries of a directory.
os_listdir(path) ==
    LET d == TreePath(path)
    IN  {q[Len(q)] : q \in {n \in tree.dirs \cup tree.files : Len(n) = Len(d) + 1 /\ Prefix(n, Len(d)) = d}}

-----------------------------------------------------------------------------
\* The ignore matcher, parse_gitignore of the gitignore_parser library: one rule
\* per line; "!" negates; a "/" before the last character anchors the rule to
\* the base directory; a trailing "/" makes it match what lies below too; "*"
\* stands for one whole component; the last matching rule decides when a rule
\* is negated, any matching rule otherwise.

RECURSIVE SplitOn(_, _, _)
SplitOn(s, sep, cur) ==
    IF s = <<>> THEN <<cur>>
    ELSE IF s[1] = sep THEN <<cur>> \o SplitOn(Tail(s), sep, <<>>)
    ELSE SplitOn(Tail(s), sep, Append(cur, s[1]))

IsRuleLine(line) ==
    /\ Strip(line) # <<>>
    /\ line[1] # HASH
    /\ ~(line[1] = BANG /\ Len(line) = 1)
    /\ RStrip(IF line[1] = BANG THEN Tail(line) ELSE line) # <<SLASH>>

ParseRule(line) ==
    LET negation == line[1] = BANG
        pat0 == RStrip(IF negation THEN Tail(line) ELSE line)
        directory_only == pat0[Len(pat0)] = SLASH
        anchored == \E i \in 1..(Len(pat0) - 1) : pat0[i] = SLASH
        pat1 == IF pat0[1] = SLASH THEN Tail(pat0) ELSE pat0
        pat2 == IF pat1[Len(pat1)] = SLASH THEN DropLast(pat1, 1) ELSE pat1
    IN  [negation |-> negation, directory_only |-> directory_only,
         anchored |-> anchored, comps |-> SplitOn(pat2, SLASH, <<>>)]

CompMatches(comp, name) == comp = <<STAR>> \/ comp = <<name>>

\* IgnoreRule.match on the path relative to the rule's base directory.
RuleMatches(rule, rel) ==
    \E s \in (IF rule.anchored THEN {1} ELSE 1..Len(rel)) :
        LET e == s + Len(rule.comps) - 1
        IN  /\ e <= Len(rel)
            /\ \A i \in 1..Len(rule.comps) : CompMatches(rule.comps[i], rel[s + i - 1])
            /\ IF ~rule.directory_only THEN e = Len(rel) ELSE ~rule.negation

\* The predicate parse_gitignore returns for a file holding `text`, whose base
\* directory is the directory of that file.
Ignorer(text, base, path) ==
    LET rules == MapSeq(ParseRule, SelectSeq(SplitLines(text), IsRuleLine))
        rel == SubSeq(path.parts, Len(base.parts) + 1, Len(path.parts))
        hits == {i \in 1..Len(rules) : RuleMatches(rules[i], rel)}
    IN  IF \A i \in 1..Len(rules) : ~rules[i].negation
        THEN hits # {}
        ELSE hits # {} /\ ~rules[CHOOSE i \in hits : \A j \in hits : j <= i].negation

-----------------------------------------------------------------------------
\* Ignore predicates. A predicate is a record: the default argument of
\* recursion, the lambda a directory builds, or the closure chain_is_ignored
\* returns.

\* Line 64: lambda x: x == ".git"
DefaultPred == [kind |-> "default"]

\* A test that compares the whole path, as the default argument does.
IsGitEntryWholePath(x) == x = RelPath(<<".git">>)

\* Lines 78 and 87: os.path.basename(x) == ".git"
IsGitEntry(x) == os_path_basename(x) = ".git"

\* Lines 80-82: the path handed to the matcher.
IgnorerArg(x) == os_path_join(TempDir, os_path_relpath(x, root))

\* A test for the ignore file that misspells its name.
HasIgnoreFileNoDot(dir) == "gitignore" \in os_listdir(dir)

\* Line 66: ".gitignore" in os.listdir()
HasIgnoreFile(dir) == ".gitignore" \in os_listdir(dir)

\* Lines 66-73 and 78-83, or line 87: the lambda built in directory dir. With an
\* ignore file, its repaired text is written to a temporary file and compiled.
LocalPred(dir) ==
    IF HasIgnoreFile(dir)
    THEN [kind |-> "local", dir |-> TreePath(dir), compiled |-> TRUE,
          text |-> repair_gitignore_contents(gitignore[TreePath(dir)].text)]
    ELSE [kind |-> "local", dir |-> TreePath(dir), compiled |-> FALSE, text |-> <<>>]

\* A chain that forgets the predicate of the caller.
chain_is_ignored_current_only(r, last_dir, previous, current) ==
    [kind |-> "chain", rp |-> RelPath(<<>>), previous |-> previous, current |-> current]

\* Lines 47-57: chain_is_ignored.
chain_is_ignored(r, last_dir, previous, current) ==
    LET rp0 == IF last_dir.abs THEN os_path_relpath(last_dir, r) ELSE last_dir
        rp == IF rp0 = RelPath(<<".">>) THEN RelPath(<<>>) ELSE rp0
    IN  [kind |-> "chain", rp |-> rp, previous |-> previous, current |-> current]

\* Calling a predicate on x.
RECURSIVE EvalPred(_, _)
EvalPred(p, x) ==
    IF p.kind = "default" THEN x = RelPath(<<".git">>)
    ELSE IF p.kind = "local"
    THEN IsGitEntry(x) \/ (p.compiled /\ Ignorer(p.text, TempDir, IgnorerArg(x)))
    ELSE IF p.rp = RelPath(<<>>) THEN EvalPred(p.current, x)
    ELSE EvalPred(p.previous, os_path_join(p.rp, x)) \/ EvalPred(p.current, x)

\* Lines 64-89: what a call of recursion sets up in the current directory.
NewFrame(dir, chained) ==
    [last |-> dir,
     is_ignored |-> chain_is_ignored(root, dir, chained, LocalPred(dir)),
     todo |-> os_listdir(dir)]

\* A test that is made for regular files only.
ShouldSkipFilesOnly(frame, fullpath) ==
    ~os_path_isdir(fullpath) /\ EvalPred(frame.is_ignored, fullpath)

\* Line 92: if is_ignored(fullpath): continue
ShouldSkip(frame, fullpath) == EvalPred(frame.is_ignored, fullpath)

-----------------------------------------------------------------------------
\* The working trees the walker is run on.

FlatTree ==
    [dirs |-> {<<>>, <<"node_modules">>},
     files |-> {<<"a.txt">>, <<"b.txt">>, <<"node_modules", "x.js">>}]

NestedTree ==
    [dirs |-> {<<>>, <<".git">>, <<"node_modules">>, <<"sub">>, <<"sub", ".git">>,
               <<"sub", "build">>},
     files |-> {<<"a.txt">>, <<".git", "config">>, <<"node_modules", "x.js">>,
                <<"sub", ".git", "config">>, <<"sub", "x.js">>, <<"sub", "build", "out">>,
                <<"sub", "build", ".git">>}]

IgnoreDirs == {<<>>, <<"node_modules">>, <<"sub">>}

NoIgnoreFile == [present |-> FALSE, text |-> <<>>]
IgnoreFile(text) == [present |-> TRUE, text |-> text]

RootTexts ==
    { <<"node_modules", SLASH, STAR>>,
      <<HASH, SP, "deps", NL, "node_modules", SLASH, STAR, STAR, NL, BANG, ".git">>,
      <<"out">>,
      <<"sub", SLASH, "build", SLASH>>,
      <<STAR, SLASH, "x.js">> }

SubTexts ==
    { <<"build", SLASH, "out">>,
      <<"build", SLASH, STAR>>,
      <<"x.js", NL, BANG, ".git">>,
      <<"sub", SLASH, "x.js">> }

ModulesTexts == { <<BANG, "x.js">> }

TextsFor(d) ==
    IF d = <<>> THEN RootTexts ELSE IF d = <<"sub">> THEN SubTexts ELSE ModulesTexts

InitWalk ==
    /\ phase = "walk"
    /\ \E base \in {FlatTree, NestedTree} :
        /\ gitignore \in {g \in [IgnoreDirs -> {NoIgnoreFile} \cup {IgnoreFile(t) : t \in RootTexts \cup SubTexts \cup ModulesTexts}] :
                             \A d \in IgnoreDirs :
                                g[d].present => (d \in base.dirs /\ g[d].text \in TextsFor(d))}
        /\ tree = [dirs |-> base.dirs,
                   files |-> base.files \cup
                             {Append(d, ".gitignore") : d \in {e \in IgnoreDirs : gitignore[e].present}}]
    /\ wpc = "start"
    /\ cwd = root
    /\ stack = <<>>
    /\ result = <<>>
    /\ visited = {}
    /\ predAt = <<>>
    /\ IdleRepair
    /\ IdleFile
    /\ IdleMain

Top == stack[Len(stack)]

WithTodo(frame, todo) == [frame EXCEPT !.todo = todo]

SetTop(frame) == [stack EXCEPT ![Len(stack)] = frame]

Record(dir, frame) ==
    /\ visited' = visited \cup {TreePath(dir)}
    /\ predAt' = [d \in DOMAIN predAt \cup {TreePath(dir)} |->
                    IF d = TreePath(dir) THEN frame.is_ignored ELSE predAt[d]]

\* Line 101: recursion() in the root, with the default predicate.
StartWalk ==
    /\ phase = "walk" /\ wpc = "start"
    /\ stack' = <<NewFrame(cwd, DefaultPred)>>
    /\ Record(cwd, NewFrame(cwd, DefaultPred))
    /\ wpc' = "walk"
    /\ UNCHANGED <<phase, tree, gitignore, cwd, result, repairVars, fileVars, mainVars>>

\* Lines 90-93: an ignored entry is passed over.
SkipIgnored ==
    /\ phase = "walk" /\ wpc = "walk"
    /\ \E file \in Top.todo :
        LET fullpath == os_path_join(cwd, RelPath(<<file>>))
        IN  /\ ShouldSkip(Top, fullpath)
            /\ stack' = SetTop(WithTodo(Top, Top.todo \ {file}))
    /\ UNCHANGED <<phase, tree, gitignore, wpc, cwd, result, visited, predAt,
                   repairVars, fileVars, mainVars>>

\* Lines 94-96: a directory that is not ignored is entered and walked.
Descend ==
    /\ phase = "walk" /\ wpc = "walk"
    /\ \E file \in Top.todo :
        LET fullpath == os_path_join(cwd, RelPath(<<file>>))
        IN  /\ ~ShouldSkip(Top, fullpath)
            /\ os_path_isdir(fullpath)
            /\ cwd' = fullpath
            /\ stack' = Append(SetTop(WithTodo(Top, Top.todo \ {file})),
                               NewFrame(fullpath, Top.is_ignored))
            /\ Record(fullpath, NewFrame(fullpath, Top.is_ignored))
    /\ UNCHANGED <<phase, tree, gitignore, wpc, result, repairVars, fileVars, mainVars>>

\* Lines 98-99: a regular file that is not ignored is appended to the result.
Collect ==
    /\ phase = "walk" /\ wpc = "walk"
    /\ \E file \in Top.todo :
        LET fullpath == os_path_join(cwd, RelPath(<<file>>))
        IN  /\ ~ShouldSkip(Top, fullpath)
            /\ ~os_path_isdir(fullpath)
            /\ result' = Append(result, os_path_relpath(fullpath, root).parts)
            /\ stack' = SetTop(WithTodo(Top, Top.todo \ {file}))
    /\ UNCHANGED <<phase, tree, gitignore, wpc, cwd, visited, predAt,
                   repairVars, fileVars, mainVars>>

\* Line 97: a nested call returns and the caller changes back to its directory.
Return ==
    /\ phase = "walk" /\ wpc = "walk"
    /\ Len(stack) > 1
    /\ Top.todo = {}
    /\ stack' = DropLast(stack, 1)
    /\ cwd' = stack[Len(stack) - 1].last
    /\ UNCHANGED <<phase, tree, gitignore, wpc, result, visited, predAt,
                   repairVars, fileVars, mainVars>>

\* Lines 102-103: the outermost call returns; os.chdir(root); return result.
FinishWalk ==
    /\ phase = "walk" /\ wpc = "walk"
    /\ Len(stack) = 1
    /\ Top.todo = {}
    /\ stack' = <<>>
    /\ cwd' = root
    /\ wpc' = "done"
    /\ UNCHANGED <<phase, tree, gitignore, result, visited, predAt,
                   repairVars, fileVars, mainVars>>

NextWalk == StartWalk \/ SkipIgnored \/ Descend \/ Collect \/ Return \/ FinishWalk

SpecWalk == InitWalk /\ [][NextWalk]_vars

-----------------------------------------------------------------------------
\* Properties of the walker.

\* The non-empty prefixes of a working-tree path: the path and its ancestors
\* below the root.
EntriesOnPath(p) == {Prefix(p, k) : k \in 1..Len(p)}

Parent(p) == Prefix(p, Len(p) - 1)

Reached == visited \cup Range(result) \cup (IF wpc = "idle" THEN {} ELSE {TreePath(cwd)})

\* C2: no directory that was listed or changed into, and no path of the result,
\* is or lies under an entry that the effective predicate of its directory
\* matches, whatever the ignore files inside that entry say.
C2_IgnoredIsPruned ==
    \A p \in Reached : \A e \in EntriesOnPath(p) :
        /\ Parent(e) \in DOMAIN predAt
        /\ ~EvalPred(predAt[Parent(e)], FullPath(e))

C2_Witness ==
    /\ wpc = "done"
    /\ gitignore[<<"node_modules">>] = IgnoreFile(<<BANG, "x.js">>)
    /\ EvalPred(predAt[<<>>], FullPath(<<"node_modules">>))
    /\ <<"node_modules">> \notin visited
    /\ <<"sub">> \in visited

\* The directories whose own predicates a call of the predicate p consults.
RECURSIVE ChainLocals(_)
ChainLocals(p) ==
    IF p.kind = "default" THEN <<>>
    ELSE IF p.kind = "local" THEN <<p.dir>>
    ELSE IF p.rp = RelPath(<<>>) THEN ChainLocals(p.current)
    ELSE ChainLocals(p.previous) \o ChainLocals(p.current)

\* C3: the effective predicate of a listed directory D consults the local
\* predicates of the root, ..., D and of no other directory, and matches an
\* entry of D exactly when one of them does.
C3_EffectiveIsAncestorsOr ==
    \A d \in DOMAIN predAt :
        /\ ChainLocals(predAt[d]) = [k \in 1..(Len(d) + 1) |-> Prefix(d, k - 1)]
        /\ \A name \in os_listdir(FullPath(d)) :
            LET x == FullPath(Append(d, name))
            IN  EvalPred(predAt[d], x)
                  <=> \E k \in 0..Len(d) : EvalPred(LocalPred(FullPath(Prefix(d, k))), x)

C3_Witness ==
    /\ wpc = "done"
    /\ gitignore[<<>>] = IgnoreFile(<<"out">>)
    /\ gitignore[<<"sub">>] = IgnoreFile(<<"sub", SLASH, "x.js">>)
    /\ <<"sub", "build">> \in DOMAIN predAt
    /\ EvalPred(predAt[<<"sub", "build">>], FullPath(<<"sub", "build", "out">>))
    /\ ~EvalPred(LocalPred(FullPath(<<"sub", "build">>)), FullPath(<<"sub", "build", "out">>))
    /\ <<"sub", "build", "out">> \notin Range(result)
    /\ <<"node_modules", "x.js">> \in Range(result)

Below(d) == {n \in tree.dirs \cup tree.files : Len(n) > Len(d) /\ Prefix(n, Len(d)) = d}

\* What the rules of the ignore file of directory d say of the path x when
\* they are matched against x relative to d.
RulesOfMatch(d, x) ==
    Ignorer(repair_gitignore_contents(gitignore[d].text), FullPath(d), FullPath(x))

\* C4: the local predicate of a listed directory D that has an ignore file
\* matches a path below D exactly when the path is named .git or a rule of the
\* file matches the path relative to D; and no file of the result lies at or
\* under a path that a rule of D matches relative to D.
C4_RulesRelativeToDeclaringDir ==
    \A d \in {v \in visited : HasIgnoreFile(FullPath(v))} :
        /\ \A x \in Below(d) :
            EvalPred(LocalPred(FullPath(d)), FullPath(x))
              <=> (IsGitEntry(FullPath(x)) \/ RulesOfMatch(d, x))
        /\ \A f \in Range(result) \cap Below(d) :
            \A e \in EntriesOnPath(f) \cap Below(d) : ~RulesOfMatch(d, e)

\* C5: no path of the result, and no directory that was listed, has a
\* component named .git.
C5_NoGitMetadata ==
    \A p \in Range(result) \cup visited : \A i \in 1..Len(p) : p[i] # ".git"

C5_Witness ==
    /\ wpc = "done"
    /\ gitignore[<<>>].present /\ gitignore[<<>>].text \in {t \in RootTexts : BANG \in Range(t)}
    /\ gitignore[<<"sub">>].present /\ gitignore[<<"sub">>].text \in {t \in SubTexts : BANG \in Range(t)}
    /\ {<<".git">>, <<"sub", ".git">>} \subseteq tree.dirs
    /\ <<"sub", "build", ".git">> \in tree.files
    /\ <<"sub", "build">> \in visited
    /\ <<"sub">> \in visited
    /\ <<"a.txt">> \in Range(result)

\* The tree of the end-to-end scenario: a.txt, b.txt, node_modules/x.js and an
\* ignore file in the root holding node_modules/*.
ScenarioTree ==
    /\ tree.dirs = FlatTree.dirs
    /\ gitignore[<<>>] = IgnoreFile(<<"node_modules", SLASH, STAR>>)
    /\ ~gitignore[<<"node_modules">>].present

\* C7 as stated: on the scenario tree the result is exactly {a.txt, b.txt}.
C7_ExactlyTwoFiles ==
    (wpc = "done" /\ ScenarioTree) => Range(result) = {<<"a.txt">>, <<"b.txt">>}

\* C7 amended: on the scenario tree the result is exactly a.txt, b.txt and the
\* ignore file .gitignore itself, each once; nothing under node_modules.
C7_TwoFilesAndIgnoreFile ==
    (wpc = "done" /\ ScenarioTree) =>
        /\ Range(result) = {<<"a.txt">>, <<"b.txt">>, <<".gitignore">>}
        /\ Len(result) = 3

C7_Witness ==
    /\ wpc = "done"
    /\ ScenarioTree
    /\ <<"node_modules">> \notin visited
    /\ Len(result) = 3

====
